---- MODULE Spec2Model ----
(***************************************************************************)
(* Model of rust/cxrs/tools/quality_gate.py: the cxrs quality gate.        *)
(*                                                                         *)
(* A source file is the list of its lines (what read_text().splitlines()   *)
(* returns); a line is a list of lexemes.  The lexemes are the units the   *)
(* code distinguishes: " " (white space), words ([A-Za-z0-9_]+, maximal:   *)
(* no two words are adjacent), "(", "{", "}", and "e", which stands for    *)
(* one literal occurrence of the token eprintln!( .                        *)
(* A path is the list of its components, a component the list of its       *)
(* character codes, so that both the order pathlib gives to paths and the  *)
(* order of the reported strings can be computed.                          *)
(***************************************************************************)
EXTENDS Integers, Sequences, FiniteSets, TLC

\* ---------------------------------------------------------------- bounds
MaxLines == 4
MaxFiles == 2
MaxLimit == 2
MaxBaseline == 2

\* ------------------------------------------------------- program constants
DisplayCap == 100

Min(a, b) == IF a <= b THEN a ELSE b

\* ----------------------------------------------------------------- paths
C_src == <<115, 114, 99>>
C_a == <<97>>
C_a_rs == <<97, 46, 114, 115>>
C_b_rs == <<98, 46, 114, 115>>
C_a_b_rs == <<97, 45, 98, 46, 114, 115>>

\* src/a.rs, src/a/b.rs, src/a-b.rs, src/b.rs
PathSet ==
  { <<C_src, C_a_rs>>, <<C_src, C_a, C_b_rs>>, <<C_src, C_a_b_rs>>, <<C_src, C_b_rs>> }

\* str < str of Python: code point by code point, a proper prefix is smaller.
StrLt(a, b) ==
  \E n \in 1..(Min(Len(a), Len(b)) + 1) :
     /\ \A m \in 1..(n - 1) : a[m] = b[m]
     /\ \/ n = Len(a) + 1 /\ n <= Len(b)
        \/ n <= Len(a) /\ n <= Len(b) /\ a[n] < b[n]

\* PurePath.__lt__: the lists of components are compared, component by component.
PathLt(p, q) ==
  \E n \in 1..(Min(Len(p), Len(q)) + 1) :
     /\ \A m \in 1..(n - 1) : p[m] = q[m]
     /\ \/ n = Len(p) + 1 /\ n <= Len(q)
        \/ n <= Len(p) /\ n <= Len(q) /\ StrLt(p[n], q[n])

RECURSIVE PathStr(_)
\* str(path): the components joined by "/" (code 47).
PathStr(p) ==
  IF Len(p) = 0 THEN <<>>
  ELSE IF Len(p) = 1 THEN p[1]
  ELSE p[1] \o <<47>> \o PathStr(Tail(p))

RECURSIVE Insert(_, _)
Insert(s, x) ==
  IF s = <<>> THEN <<x>>
  ELSE IF PathLt(x, s[1]) THEN <<x>> \o s
  ELSE <<s[1]>> \o Insert(Tail(s), x)

\* The paths left in the order the file system yields them.
Sorted_Unsorted(s) == s

RECURSIVE Sorted(_)
\* sorted(...) of a list of paths.
Sorted(s) ==
  IF s = <<>> THEN <<>>
  ELSE Insert(Sorted(SubSeq(s, 1, Len(s) - 1)), s[Len(s)])

\* ----------------------------------------------------------------- lines
Words == {"pub", "async", "fn", "f", "execute_task", "x"}

SigF == <<"fn", " ", "f", "(", "{">>
SigE == <<" ", "pub", " ", "async", " ", "fn", " ", "execute_task", " ", "(", "{">>
Decl == <<"fn", " ", "f", "(">>
Close == <<"}">>
CloseOpen == <<"}", "{">>
CloseClose == <<"}", "}">>
Plain == <<"x">>
OneLine == <<"fn", " ", "f", "(", "{", "}">>

LineSet == {SigF, SigE, Decl, OneLine, Close, CloseOpen, CloseClose, Plain}

Tok(line, p) == IF p >= 1 /\ p <= Len(line) THEN line[p] ELSE "$"

RECURSIVE SkipWs(_, _)
\* \s* from position p: the first position at or after p that is not white space.
SkipWs(line, p) == IF Tok(line, p) = " " THEN SkipWs(line, p + 1) ELSE p

\* PAT_FN.match(line): <<>> when there is no match, <<name>> (group 3) otherwise.
PAT_FN(line) ==
  LET p0 == SkipWs(line, 1)
      p1 == IF Tok(line, p0) = "pub" /\ Tok(line, p0 + 1) = " "
            THEN SkipWs(line, p0 + 1) ELSE p0
      p2 == IF Tok(line, p1) = "async" /\ Tok(line, p1 + 1) = " "
            THEN SkipWs(line, p1 + 1) ELSE p1
      p3 == SkipWs(line, p2 + 1)
      p4 == SkipWs(line, p3 + 1)
  IN IF /\ Tok(line, p2) = "fn"
        /\ Tok(line, p2 + 1) = " "
        /\ Tok(line, p3) \in Words
        /\ Tok(line, p4) = "("
     THEN <<Tok(line, p3)>>
     ELSE <<>>

RECURSIVE ScanLine(_, _, _)
\* for ch in lines[j]: the brace counter after the characters of one line.
ScanLine(line, op, d) ==
  IF line = <<>> THEN [opened |-> op, depth |-> d]
  ELSE IF Head(line) = "{" THEN ScanLine(Tail(line), TRUE, d + 1)
  ELSE IF Head(line) = "}" /\ op THEN ScanLine(Tail(line), op, d - 1)
  ELSE ScanLine(Tail(line), op, d)

RECURSIVE CountE(_)
\* text.count("eprintln!(") over the lines of a file.
CountLine(line) == Cardinality({p \in 1..Len(line) : line[p] = "e"})
CountE(ls) == IF ls = <<>> THEN 0 ELSE CountLine(Head(ls)) + CountE(Tail(ls))

\* ------------------------------------------------------------- the rules
\* The file rule with >= for >.
ExceedsFile_OrEqual(n, max) == n >= max

\* len(lines) > max_lines
ExceedsFile(n, max) == n > max

\* The function rule with >= for >.
ExceedsFn_OrEqual(length, max, nm, allow) == length >= max /\ nm \notin allow

\* length > max_lines and name not in allow
ExceedsFn(length, max, nm, allow) == length > max /\ nm \notin allow

\* The cursor after a closed span going to the line after the signature.
AfterSpan_NextLine(ii, jj) == ii + 1

\* i = j + 1: the cursor after a closed span
AfterSpan(ii, jj) == jj + 1

\* The cursor after a body that never closes going to the end of the file.
AfterUnterminated_ToEnd(ii, jj) == jj

\* The cursor after a body that never closes staying where it is.
AfterUnterminated_Stay(ii, jj) == ii

\* while ... else: i += 1: the cursor after a body that never closes
AfterUnterminated(ii, jj) == ii + 1

\* The baseline test with >= for >.
BaselineExceeded_OrEqual(ep, baseline) == baseline /= <<>> /\ ep >= baseline[1]

\* args.max_raw_eprintln is not None and ep_count > args.max_raw_eprintln
BaselineExceeded(ep, baseline) == baseline /= <<>> /\ ep > baseline[1]

\* args.strict_errors and ep_count > 0
StrictFailed(ep, strict) == strict /\ ep > 0

\* ----------------------------------------------------------------- state
VARIABLES
  rootExists,   \* src_root.exists()
  fs,           \* the *.rs files under the root, in the order rglob yields them
  args,         \* the parsed command line
  pc,           \* position in main
  paths,        \* sorted(src_root.rglob("*.rs")) of the running function
  k,            \* index in paths of the file being processed (1-based)
  lines,        \* lines of the file being scanned
  i, j, opened, depth, name,   \* locals of function_violations
  file_v, fn_v, ep_count,      \* results
  spans,        \* the spans closed so far (file, name, start, end), 1-based lines
  out,          \* what was printed
  ret           \* <<>> until main returns, then <<exit code>>

vars == <<rootExists, fs, args, pc, paths, k, lines, i, j, opened, depth, name,
          file_v, fn_v, ep_count, spans, out, ret>>

inputs == <<rootExists, fs, args>>
scan == <<lines, i, j, opened, depth, name>>

\* ---------------------------------------------------------------- inputs
RECURSIVE SeqsUpTo(_, _)
SeqsUpTo(S, n) ==
  IF n = 0 THEN {<<>>}
  ELSE LET T == SeqsUpTo(S, n - 1)
       IN T \cup {Append(t, x) : t \in {u \in T : Len(u) = n - 1}, x \in S}

File(p, ls, r) == [path |-> p, lines |-> ls, readable |-> r]

Args(mfile, mfn, user, strict, base) ==
  [max_file_lines |-> mfile, max_fn_lines |-> mfn,
   allow_fn |-> {"execute_task"} \cup user,
   strict_errors |-> strict, max_raw_eprintln |-> base]

Limits == 1..MaxLimit
Baselines == {<<>>} \cup {<<b>> : b \in 0..MaxBaseline}

\* Files of a crate with the discouraged call in them.
Noisy == << <<"e", " ", "e">> >>
NoisyFn == << <<"fn", " ", "f", "(", "{", "e">>, Close >>
ContentSet == {<<>>, Noisy, NoisyFn}

\* Lists of at most MaxFiles distinct paths: the orders rglob may yield.
Enumerations ==
  {e \in SeqsUpTo(PathSet, MaxFiles) : \A a, b \in 1..Len(e) : a /= b => e[a] /= e[b]}

\* One file, every arrangement of lines, every function limit.
InitScan ==
  /\ rootExists = TRUE
  /\ \E ls \in SeqsUpTo(LineSet, MaxLines) : fs = <<File(<<C_src, C_a_rs>>, ls, TRUE)>>
  /\ \E mfn \in Limits : args = Args(MaxLimit, mfn, {}, FALSE, <<>>)

\* Several files in every enumeration order, at most one of them unreadable.
InitTree ==
  /\ rootExists = TRUE
  /\ \E e \in Enumerations :
       \E c \in [1..Len(e) -> ContentSet] :
         \E bad \in 0..Len(e) :
           fs = [n \in 1..Len(e) |-> File(e[n], c[n], n /= bad)]
  /\ args = Args(1, 1, {}, FALSE, <<>>)

\* One file, every configuration; and the missing root.
InitConfig ==
  /\ rootExists \in BOOLEAN
  /\ IF rootExists
     THEN \E c \in ContentSet : fs = <<File(<<C_src, C_a_rs>>, c, TRUE)>>
     ELSE fs = <<>>
  /\ \E mfile \in Limits, mfn \in Limits, user \in {{}, {"f"}},
        strict \in BOOLEAN, base \in Baselines :
       args = Args(mfile, mfn, user, strict, base)

Init ==
  /\ InitScan \/ InitTree \/ InitConfig
  /\ pc = "main"
  /\ paths = <<>>
  /\ k = 1
  /\ lines = <<>>
  /\ i = 0
  /\ j = 0
  /\ opened = FALSE
  /\ depth = 0
  /\ name = ""
  /\ file_v = <<>>
  /\ fn_v = <<>>
  /\ ep_count = 0
  /\ spans = <<>>
  /\ out = <<>>
  /\ ret = <<>>

\* src_root.rglob("*.rs")
Rglob == [n \in 1..Len(fs) |-> fs[n].path]

\* the file at a path
FileAt(p) == CHOOSE f \in {fs[n] : n \in 1..Len(fs)} : f.path = p

\* the first DisplayCap elements: fn_v[:100]
Capped(s) == SubSeq(s, 1, Min(Len(s), DisplayCap))

\* ---------------------------------------------------------------- main
\* if not src_root.exists(): print, return 2; else call file_violations
MainEnter ==
  /\ pc = "main"
  /\ IF ~rootExists
     THEN /\ out' = Append(out, <<"ERROR: source root not found">>)
          /\ ret' = <<2>>
          /\ pc' = "done"
          /\ UNCHANGED paths
     ELSE /\ pc' = "file_violations"
          /\ paths' = Sorted(Rglob)
          /\ UNCHANGED <<out, ret>>
  /\ k' = 1
  /\ UNCHANGED <<inputs, scan, file_v, fn_v, ep_count, spans>>

\* one iteration of the loop of file_violations
FileViolationsStep ==
  /\ pc = "file_violations"
  /\ k <= Len(paths)
  /\ IF ~FileAt(paths[k]).readable
     THEN /\ pc' = "raised"
          /\ UNCHANGED <<k, file_v>>
     ELSE LET n == Len(FileAt(paths[k]).lines)
          IN /\ file_v' = IF ExceedsFile(n, args.max_file_lines)
                          THEN Append(file_v, <<PathStr(paths[k]), n>>)
                          ELSE file_v
             /\ k' = k + 1
             /\ pc' = pc
  /\ UNCHANGED <<inputs, paths, scan, fn_v, ep_count, spans, out, ret>>

\* file_violations returns; function_violations is called
FileViolationsReturn ==
  /\ pc = "file_violations"
  /\ k > Len(paths)
  /\ pc' = "fn_file"
  /\ paths' = Sorted(Rglob)
  /\ k' = 1
  /\ UNCHANGED <<inputs, scan, file_v, fn_v, ep_count, spans, out, ret>>

\* for path in sorted(...): lines = path.read_text().splitlines(); i = 0
FnOpenFile ==
  /\ pc = "fn_file"
  /\ k <= Len(paths)
  /\ IF ~FileAt(paths[k]).readable
     THEN /\ pc' = "raised"
          /\ UNCHANGED <<lines, i>>
     ELSE /\ lines' = FileAt(paths[k]).lines
          /\ i' = 0
          /\ pc' = "fn_outer"
  /\ UNCHANGED <<inputs, paths, k, j, opened, depth, name, file_v, fn_v, ep_count,
                 spans, out, ret>>

\* function_violations returns; error_pattern_count is called
FnReturn ==
  /\ pc = "fn_file"
  /\ k > Len(paths)
  /\ pc' = "error_pattern_count"
  /\ UNCHANGED <<inputs, paths, k, scan, file_v, fn_v, ep_count, spans, out, ret>>

\* while i < len(lines): the line is no signature: i += 1; continue
FnOuterSkip ==
  /\ pc = "fn_outer"
  /\ i < Len(lines)
  /\ PAT_FN(lines[i + 1]) = <<>>
  /\ i' = i + 1
  /\ UNCHANGED <<inputs, pc, paths, k, lines, j, opened, depth, name, file_v, fn_v,
                 ep_count, spans, out, ret>>

\* while i < len(lines): a signature: name, j = i, opened = False, depth = 0
FnOuterMatch ==
  /\ pc = "fn_outer"
  /\ i < Len(lines)
  /\ PAT_FN(lines[i + 1]) /= <<>>
  /\ name' = PAT_FN(lines[i + 1])[1]
  /\ j' = i
  /\ opened' = FALSE
  /\ depth' = 0
  /\ pc' = "fn_inner"
  /\ UNCHANGED <<inputs, paths, k, lines, i, file_v, fn_v, ep_count, spans, out, ret>>

\* the outer while ends: the next file
FnOuterExit ==
  /\ pc = "fn_outer"
  /\ ~(i < Len(lines))
  /\ k' = k + 1
  /\ pc' = "fn_file"
  /\ UNCHANGED <<inputs, paths, scan, file_v, fn_v, ep_count, spans, out, ret>>

\* while j < len(lines): the line leaves the counter open: j += 1
FnInnerAdvance ==
  /\ pc = "fn_inner"
  /\ j < Len(lines)
  /\ LET st == ScanLine(lines[j + 1], opened, depth)
     IN /\ ~(st.opened /\ st.depth = 0)
        /\ opened' = st.opened
        /\ depth' = st.depth
  /\ j' = j + 1
  /\ UNCHANGED <<inputs, pc, paths, k, lines, i, name, file_v, fn_v, ep_count, spans,
                 out, ret>>

\* while j < len(lines): opened and depth == 0 after the line: the span closes
FnInnerClose ==
  /\ pc = "fn_inner"
  /\ j < Len(lines)
  /\ LET st == ScanLine(lines[j + 1], opened, depth)
         length == (j - i) + 1
     IN /\ st.opened /\ st.depth = 0
        /\ opened' = st.opened
        /\ depth' = st.depth
        /\ spans' = Append(spans, [file |-> k, name |-> name, start |-> i + 1,
                                   end |-> j + 1])
        /\ fn_v' = IF ExceedsFn(length, args.max_fn_lines, name, args.allow_fn)
                   THEN Append(fn_v, <<PathStr(paths[k]), name, length, i + 1, j + 1>>)
                   ELSE fn_v
  /\ i' = AfterSpan(i, j)
  /\ pc' = "fn_outer"
  /\ UNCHANGED <<inputs, paths, k, lines, j, name, file_v, ep_count, out, ret>>

\* the inner while runs out of lines (its else branch): i += 1
FnInnerExhausted ==
  /\ pc = "fn_inner"
  /\ ~(j < Len(lines))
  /\ i' = AfterUnterminated(i, j)
  /\ pc' = "fn_outer"
  /\ UNCHANGED <<inputs, paths, k, lines, j, opened, depth, name, file_v, fn_v,
                 ep_count, spans, out, ret>>

RECURSIVE CountAll(_)
\* the loop of error_pattern_count over the sorted paths
CountAll(ps) ==
  IF ps = <<>> THEN 0 ELSE CountE(FileAt(Head(ps)).lines) + CountAll(Tail(ps))

\* error_pattern_count(src_root)
ErrorPatternCount ==
  /\ pc = "error_pattern_count"
  /\ IF \E n \in 1..Len(paths) : ~FileAt(paths[n]).readable
     THEN /\ pc' = "raised"
          /\ UNCHANGED ep_count
     ELSE /\ ep_count' = CountAll(Sorted(Rglob))
          /\ pc' = "report"
  /\ UNCHANGED <<inputs, paths, k, scan, file_v, fn_v, spans, out, ret>>

\* the prints of main up to raw_eprintln_count
Report ==
  /\ pc = "report"
  /\ out' = out \o << <<"== cxrs quality gate ==">>,
                      <<"file_max_lines", args.max_file_lines>>,
                      <<"fn_max_lines", args.max_fn_lines, args.allow_fn>>,
                      <<"file_violations", Len(file_v)>> >>
                \o file_v
                \o << <<"function_violations", Len(fn_v)>> >>
                \o Capped(fn_v)
                \o << <<"raw_eprintln_count", ep_count>> >>
  /\ pc' = "verdict"
  /\ UNCHANGED <<inputs, paths, k, scan, file_v, fn_v, ep_count, spans, ret>>

\* the returns of main after the report
Verdict ==
  /\ pc = "verdict"
  /\ IF file_v /= <<>> \/ fn_v /= <<>>
     THEN ret' = <<1>> /\ UNCHANGED out
     ELSE IF BaselineExceeded(ep_count, args.max_raw_eprintln)
     THEN /\ out' = Append(out, <<"ERROR: raw_eprintln_count exceeds baseline",
                                  ep_count, args.max_raw_eprintln[1]>>)
          /\ ret' = <<1>>
     ELSE IF StrictFailed(ep_count, args.strict_errors)
     THEN ret' = <<1>> /\ UNCHANGED out
     ELSE ret' = <<0>> /\ UNCHANGED out
  /\ pc' = "done"
  /\ UNCHANGED <<inputs, paths, k, scan, file_v, fn_v, ep_count, spans>>

Next ==
  \/ MainEnter
  \/ FileViolationsStep
  \/ FileViolationsReturn
  \/ FnOpenFile
  \/ FnReturn
  \/ FnOuterSkip
  \/ FnOuterMatch
  \/ FnOuterExit
  \/ FnInnerAdvance
  \/ FnInnerClose
  \/ FnInnerExhausted
  \/ ErrorPatternCount
  \/ Report
  \/ Verdict

Spec == Init /\ [][Next]_vars

\* ------------------------------------------------------ auxiliary notions
FileSet == {fs[n] : n \in 1..Len(fs)}

\* The occurrences of the discouraged call in the tree.
RECURSIVE TotalE(_)
TotalE(n) == IF n = 0 THEN 0 ELSE CountE(fs[n].lines) + TotalE(n - 1)

RECURSIVE Split(_)
\* The components of a reported path: the string cut at each "/".
Split(s) ==
  IF \A n \in 1..Len(s) : s[n] /= 47 THEN <<s>>
  ELSE LET p == CHOOSE n \in 1..Len(s) : s[n] = 47 /\ \A m \in 1..(n - 1) : s[m] /= 47
       IN <<SubSeq(s, 1, p - 1)>> \o Split(SubSeq(s, p + 1, Len(s)))

IsSig(line) == PAT_FN(line) /= <<>>

RECURSIVE ClosingFrom(_, _, _, _)
\* The line (1-based) at whose end the counter is open and zero, counting line by
\* line from line n with counter (op, d); 0 when no line is.
ClosingFrom(ls, n, op, d) ==
  IF n > Len(ls) THEN 0
  ELSE LET st == ScanLine(ls[n], op, d)
       IN IF st.opened /\ st.depth = 0 THEN n
          ELSE ClosingFrom(ls, n + 1, st.opened, st.depth)

ClosingLine(ls, m) == ClosingFrom(ls, m, FALSE, 0)

RECURSIVE ZeroInLine(_, _, _)
\* Scanning one line character by character: <<TRUE>> as soon as a "}" brings the
\* depth back to zero, else <<FALSE, opened, depth>> at the end of the line.
ZeroInLine(line, op, d) ==
  IF line = <<>> THEN <<FALSE, op, d>>
  ELSE IF Head(line) = "{" THEN ZeroInLine(Tail(line), TRUE, d + 1)
  ELSE IF Head(line) = "}" /\ op
       THEN IF d - 1 = 0 THEN <<TRUE>> ELSE ZeroInLine(Tail(line), op, d - 1)
  ELSE ZeroInLine(Tail(line), op, d)

RECURSIVE FirstZeroFrom(_, _, _, _)
FirstZeroFrom(ls, n, op, d) ==
  IF n > Len(ls) THEN 0
  ELSE LET z == ZeroInLine(ls[n], op, d)
       IN IF z[1] THEN n ELSE FirstZeroFrom(ls, n + 1, z[2], z[3])

\* The line on which the depth first returns to zero, scanning from line m.
FirstZeroLine(ls, m) == FirstZeroFrom(ls, m, FALSE, 0)

SpanLength(sp) == sp.end - sp.start + 1
LinesOf(sp) == FileAt(paths[sp.file]).lines
Returned == pc = "done"

C2_Expected(sp) == SpanLength(sp) > args.max_fn_lines /\ sp.name \notin args.allow_fn

C2_AsViolation(sp) ==
  <<PathStr(paths[sp.file]), sp.name, SpanLength(sp), sp.start, sp.end>>

\* C2: the function violations are exactly the closed spans whose line count
\* (end - start + 1) is strictly greater than max-fn-lines and whose name is not
\* in the allow-list, one violation per such span, in the order of the spans.
C2_FunctionRule ==
  LET hit == SelectSeq(spans, C2_Expected)
  IN fn_v = [n \in 1..Len(hit) |-> C2_AsViolation(hit[n])]

\* A finished run with a span of exactly max-fn-lines lines (no violation) and a
\* span of max-fn-lines + 1 lines that was reported.
C2_Witness ==
  /\ Returned
  /\ \E a, b \in 1..Len(spans) :
       /\ SpanLength(spans[a]) = args.max_fn_lines
       /\ SpanLength(spans[b]) = args.max_fn_lines + 1
       /\ spans[b].name \notin args.allow_fn
  /\ Len(fn_v) = 1

\* A finished run with an allow-listed span longer than the limit and no violation.
C2_WitnessAllow ==
  /\ Returned
  /\ \E a \in 1..Len(spans) :
       SpanLength(spans[a]) > args.max_fn_lines /\ spans[a].name \in args.allow_fn
  /\ fn_v = <<>>

\* ------------------------------------------------------------------ C3
\* C3: once file_violations has returned, the file violations hold exactly one
\* entry, with the line count, for each file whose line count is strictly
\* greater than max-file-lines, and no other entry.
C3_FileRule ==
  pc \notin {"main", "file_violations", "raised"} =>
    /\ \A f \in FileSet :
         Cardinality({m \in 1..Len(file_v) : file_v[m][1] = PathStr(f.path)})
           = IF Len(f.lines) > args.max_file_lines THEN 1 ELSE 0
    /\ \A m \in 1..Len(file_v) :
         \E f \in FileSet : file_v[m] = <<PathStr(f.path), Len(f.lines)>>

\* A finished run over a file of exactly max-file-lines lines and a file of
\* max-file-lines + 1 lines: one violation.
C3_Witness ==
  /\ Returned
  /\ \E f, g \in FileSet :
       /\ Len(f.lines) = args.max_file_lines
       /\ Len(g.lines) = args.max_file_lines + 1
  /\ Len(file_v) = 1

\* ------------------------------------------------------------------ C4
\* C4: every diagnostic that applies is printed before main returns: when the
\* count exceeds a configured baseline, the baseline-exceeded ERROR line is in
\* the output of a returned run, whether or not violations exist.
C4_BaselinePrinted ==
  (/\ Returned
   /\ rootExists
   /\ args.max_raw_eprintln /= <<>>
   /\ TotalE(Len(fs)) > args.max_raw_eprintln[1])
  => \E m \in 1..Len(out) : out[m][1] = "ERROR: raw_eprintln_count exceeds baseline"

\* ------------------------------------------------------------------ C5
IncreasingBy(list, Lt(_, _)) ==
  \A a, b \in 1..Len(list) : a < b => Lt(list[a], list[b])

C5_StrOrderFile(v, w) == StrLt(v[1], w[1])
C5_StrOrderFn(v, w) == StrLt(v[1], w[1]) \/ (v[1] = w[1] /\ v[4] < w[4])
C5_PathOrderFile(v, w) == PathLt(Split(v[1]), Split(w[1]))
C5_PathOrderFn(v, w) ==
  PathLt(Split(v[1]), Split(w[1])) \/ (v[1] = w[1] /\ v[4] < w[4])

\* C5 as stated: both violation lists are in lexicographic order of the reported
\* path (the string), function violations of one file by increasing start line.
C5_StringOrder ==
  /\ IncreasingBy(file_v, C5_StrOrderFile)
  /\ IncreasingBy(fn_v, C5_StrOrderFn)

\* C5 as amended: both violation lists are in the order pathlib gives to paths
\* (component by component), function violations of one file by strictly
\* increasing start line; the files are processed in the one strictly increasing
\* arrangement of the set of files, whatever order the file system yields them in.
C5_PathOrder ==
  /\ IncreasingBy(file_v, C5_PathOrderFile)
  /\ IncreasingBy(fn_v, C5_PathOrderFn)
  /\ pc \notin {"main", "done", "raised"} \/ (pc = "done" /\ rootExists) =>
       /\ IncreasingBy(paths, PathLt)
       /\ {paths[n] : n \in 1..Len(paths)} = {f.path : f \in FileSet}
       /\ Len(paths) = Len(fs)

\* A finished run over files the file system yields out of order, each with a
\* file violation and a function violation.
C5_Witness ==
  /\ Returned
  /\ Len(fs) >= 2
  /\ ~IncreasingBy(Rglob, PathLt)
  /\ Len(file_v) = Len(fs)
  /\ Len(fn_v) = Len(fs)

\* ------------------------------------------------------------------ C6
SpansOfFile(n) == {spans[a] : a \in {b \in 1..Len(spans) : spans[b].file = n}}
InsideSpan(n, m) == \E sp \in SpansOfFile(n) : sp.start < m /\ m <= sp.end

C6_Step ==
  (pc = "fn_inner" /\ ~(j < Len(lines))) =>
     /\ i' = i + 1
     /\ pc' = "fn_outer"
     /\ spans' = spans
     /\ fn_v' = fn_v

C6_Scanned ==
  pc = "fn_outer" =>
    \A m \in 1..i :
      (IsSig(lines[m]) /\ ~InsideSpan(k, m)) =>
        IF ClosingLine(lines, m) = 0
        THEN \A sp \in SpansOfFile(k) : sp.start /= m
        ELSE \E sp \in SpansOfFile(k) :
               sp.start = m /\ sp.end = ClosingLine(lines, m)

\* C6: when the lines run out before the counter of a matched signature at index
\* i is open and back at zero, no span and no violation is produced, the scan
\* goes on, and the cursor becomes exactly i + 1; so every signature line the
\* cursor has passed that lies in no closed span either closed a span of its own
\* or has no closing line.
C6_Unterminated == [][C6_Step]_vars /\ []C6_Scanned

\* The scan of a file is over; a signature line whose body never closes produced
\* no span, and a signature on a later line produced one.
C6_Witness ==
  /\ pc = "fn_outer"
  /\ i = Len(lines)
  /\ \E m \in 1..Len(lines) :
       /\ IsSig(lines[m])
       /\ ClosingLine(lines, m) = 0
       /\ ScanLine(lines[m], FALSE, 0).opened
       /\ \E sp \in SpansOfFile(k) : sp.start > m

\* ------------------------------------------------------------------ C7
\* C7: no exception propagates past main: every run ends with a printed message
\* and exit code 0, 1 or 2.
C7_NoException ==
  /\ pc /= "raised"
  /\ Returned => ret \in {<<0>>, <<1>>, <<2>>} /\ out /= <<>>

\* ------------------------------------------------------------------ C8
\* C8: the end line of every span is the line on which the depth first returns
\* to zero when the characters from the signature line on are scanned left to
\* right.
C8_FirstZero ==
  \A a \in 1..Len(spans) :
    spans[a].end = FirstZeroLine(LinesOf(spans[a]), spans[a].start)

\* ------------------------------------------------------------------ C9
C9_Disjoint ==
  /\ \A a, b \in 1..Len(spans) :
       a < b => \/ spans[a].file < spans[b].file
                \/ spans[a].file = spans[b].file /\ spans[a].end < spans[b].start
  /\ \A a \in 1..Len(spans) : spans[a].start <= spans[a].end
  /\ \A m \in 1..Len(fn_v) :
       \E a \in 1..Len(spans) :
         /\ fn_v[m][1] = PathStr(paths[spans[a].file])
         /\ fn_v[m][4] = spans[a].start
         /\ fn_v[m][5] = spans[a].end

C9_Step == (pc = "fn_inner" /\ spans' /= spans) => i' = j + 1

\* C9: the spans of one file are pairwise non-overlapping and strictly
\* increasing, the cursor goes to j + 1 when a span [i, j] closes, and every
\* function violation is one of the spans.
C9_NonOverlapping == [][C9_Step]_vars /\ []C9_Disjoint

\* A finished run over a file in which an allow-listed function encloses a
\* signature line whose own body closes and is longer than the limit: the only
\* span is the outer one and nothing is reported.
C9_Witness ==
  /\ Returned
  /\ Len(fs) = 1
  /\ Len(spans) = 1
  /\ spans[1].name \in args.allow_fn
  /\ \E m \in (spans[1].start + 1)..spans[1].end :
       /\ IsSig(lines[m])
       /\ PAT_FN(lines[m])[1] \notin args.allow_fn
       /\ ClosingLine(lines, m) /= 0
       /\ ClosingLine(lines, m) - m + 1 > args.max_fn_lines
  /\ fn_v = <<>>

\* ----------------------------------------------------------------- C10
C10_Progress == (pc \in {"fn_outer", "fn_inner"} /\ pc' = "fn_outer") => i' > i
C10_ExitAtEnd == (pc = "fn_outer" /\ pc' = "fn_file") => i = Len(lines)
C10_InRange ==
  /\ pc \in {"fn_outer", "fn_inner"} => i >= 0 /\ i <= Len(lines)
  /\ pc = "fn_inner" => j >= i /\ j <= Len(lines)

\* The steps the loop can still take: it falls with every step of the loop.
C10_Rank ==
  (Len(lines) - i) * (Len(lines) + 2)
    + (IF pc = "fn_inner" THEN Len(lines) - j ELSE Len(lines) + 1)

C10_RankFalls ==
  (pc \in {"fn_outer", "fn_inner"} /\ pc' \in {"fn_outer", "fn_inner"}) =>
     C10_Rank' < C10_Rank /\ C10_Rank' >= 0

\* C10: the extractor loop terminates: every iteration of the outer loop
\* increases the cursor i, the inner index j never exceeds the number of lines,
\* every step of the loop lowers a measure that is never negative, and the loop
\* is left with i equal to the number of lines.
C10_Terminates ==
  /\ [][C10_Progress]_vars
  /\ [][C10_ExitAtEnd]_vars
  /\ [][C10_RankFalls]_vars
  /\ []C10_InRange

\* A finished run over a file of MaxLines lines in which the outer loop skipped a
\* line, closed a span and gave up an unterminated body.
C10_Witness ==
  /\ Returned
  /\ Len(lines) = MaxLines
  /\ i = Len(lines)
  /\ Len(spans) >= 1
  /\ \E m \in 1..Len(lines) : ~IsSig(lines[m]) /\ ~InsideSpan(1, m)
  /\ \E m \in 1..Len(lines) :
       IsSig(lines[m]) /\ ~InsideSpan(1, m) /\ ClosingLine(lines, m) = 0

====
